---- MODULE Spec2Model ----
(***************************************************************************)
(* A model of the image resize server (src/index.js): the POST /resize and *)
(* POST /resize-multiple handlers, the parseBackground helper, the         *)
(* output-format choice and the size parsing.                              *)
(*                                                                         *)
(* JavaScript strings are modelled as sequences of one-character strings,  *)
(* so that slicing, replacing, searching and case folding are computed.    *)
(* The value undefined of an optional string is the one-element sequence   *)
(* Undefined, whose element is no character.                               *)
(***************************************************************************)
EXTENDS Integers, Sequences, FiniteSets, TLC

VARIABLES
    req,        \* the request being served (endpoint, files, body, query)
    pc,         \* position of the handler serving it
    locals,     \* the handler's constants: size, bgParam, background
    items,      \* /resize-multiple: the state of each processImage call
    results,    \* /resize-multiple: the array Promise.all fills
    res,        \* the response sent, or NoResponse
    sent,       \* how many responses were sent
    now,        \* the value Date.now() returns
    started,    \* external calls started: downloads, codec calls, uploads
    arg,        \* argument of the helper under test
    ret         \* value the helper returned

vars == <<req, pc, locals, items, results, res, sent, now, started, arg, ret>>

-----------------------------------------------------------------------------
(* Bounds of the model.                                                    *)

\* longest background token drawn over BgAlphabet
MaxBgLen == 7
\* longest size token drawn over SizeAlphabet
MaxSizeLen == 3
\* longest MIME type drawn over MimeAlphabet
MaxMimeLen == 4
\* largest source width, height and box size of the fit plan
MaxDim == 7
\* the clock Date.now() reads runs from 0 to MaxNow
MaxNow == 1

-----------------------------------------------------------------------------
(* JavaScript strings.                                                     *)

Undefined == <<"undefined">>

\* !s for an optional string: undefined and "" are falsy
Falsy(s) == s = Undefined \/ s = <<>>

\* s || d
OrElse(s, d) == IF Falsy(s) THEN d ELSE s

UpperLetters == <<"A","B","C","D","E","F","G","H","I","J","K","L","M",
                  "N","O","P","Q","R","S","T","U","V","W","X","Y","Z">>
LowerLetters == <<"a","b","c","d","e","f","g","h","i","j","k","l","m",
                  "n","o","p","q","r","s","t","u","v","w","x","y","z">>

LowerChar(c) ==
    IF \E i \in 1..26 : UpperLetters[i] = c
    THEN LowerLetters[CHOOSE i \in 1..26 : UpperLetters[i] = c]
    ELSE c

\* String.prototype.toLowerCase
toLowerCase(s) == [i \in 1..Len(s) |-> LowerChar(s[i])]

\* s.slice(from, to) with 0 <= from <= to (0-based, end exclusive)
slice(s, from, to) ==
    LET hi == IF to > Len(s) THEN Len(s) ELSE to
    IN  IF from >= hi THEN <<>> ELSE SubSeq(s, from + 1, hi)

\* s.replace(c, ""): only the first occurrence of c is removed
replaceFirst(s, c) ==
    IF \E i \in 1..Len(s) : s[i] = c
    THEN LET k == CHOOSE i \in 1..Len(s) :
                     s[i] = c /\ \A j \in 1..(i - 1) : s[j] # c
         IN  SubSeq(s, 1, k - 1) \o SubSeq(s, k + 1, Len(s))
    ELSE s

\* s.includes(t)
includes(s, t) ==
    \E i \in 0..(Len(s) - Len(t)) : SubSeq(s, i + 1, i + Len(t)) = t

\* s.startsWith(t)
startsWith(s, t) == Len(s) >= Len(t) /\ SubSeq(s, 1, Len(t)) = t

HexDigits == <<"0","1","2","3","4","5","6","7","8","9",
               "a","b","c","d","e","f">>

IsHexDigit(c) == \E i \in 1..16 : HexDigits[i] = LowerChar(c)

HexValue(c) == (CHOOSE i \in 1..16 : HexDigits[i] = LowerChar(c)) - 1

\* parseInt(s, 16) of a string of two hexadecimal digits
parseIntHex2(s) == 16 * HexValue(s[1]) + HexValue(s[2])

\* /^[0-9A-Fa-f]{6}$/.test(s)
IsHex6(s) == Len(s) = 6 /\ \A i \in 1..6 : IsHexDigit(s[i])

-----------------------------------------------------------------------------
(* parseBackground.                                                        *)

White == [r |-> 255, g |-> 255, b |-> 255, alpha |-> 1]

TransparentWord == <<"t","r","a","n","s","p","a","r","e","n","t">>

parseBackground(bgParam) ==
    IF Falsy(bgParam) THEN White
    ELSE IF toLowerCase(bgParam) = TransparentWord
         THEN [r |-> 0, g |-> 0, b |-> 0, alpha |-> 0]
    ELSE LET hex == replaceFirst(bgParam, "#")
         IN  IF IsHex6(hex)
             THEN [r |-> parseIntHex2(slice(hex, 0, 2)),
                   g |-> parseIntHex2(slice(hex, 2, 4)),
                   b |-> parseIntHex2(slice(hex, 4, 6)),
                   alpha |-> 1]
             ELSE White

-----------------------------------------------------------------------------
(* Values the variables hold while a specification does not use them.      *)

NoRequest == [endpoint |-> "none"]
NoResponse == [status |-> 0]
NoStarted == [downloads |-> 0, codec |-> 0, uploads |-> 0]
NoValue == [none |-> TRUE]
NoLocals == [none |-> TRUE]

IdleServer ==
    /\ req = NoRequest
    /\ locals = NoLocals
    /\ items = <<>>
    /\ results = <<>>
    /\ res = NoResponse
    /\ sent = 0
    /\ now = 0
    /\ started = NoStarted

ServerVars == <<req, locals, items, results, res, sent, now, started>>

\* all strings over the characters of alphabet, of length at most n
RECURSIVE StringsUpTo(_, _)
StringsUpTo(alphabet, n) ==
    IF n = 0 THEN {<<>>}
    ELSE LET shorter == StringsUpTo(alphabet, n - 1)
         IN  shorter \cup {Append(s, c) : s \in shorter, c \in alphabet}

-----------------------------------------------------------------------------
(* parseBackground applied to every token of a bounded set.                *)

BgAlphabet == {"#", "a", "F", "g"}

BgWords ==
    { TransparentWord,
      <<"T","R","A","N","S","P","A","R","E","N","T">>,
      <<"T","r","a","n","s","P","a","r","e","n","t">>,
      <<"t","r","a","n","s","p","a","r","e","n","t"," ">>,
      <<"w","h","i","t","e">>,
      <<"n","o","t","-","a","-","c","o","l","o","r">>,
      <<"#","3","3","6","6","9","9">>,
      <<"3","3","6","6","9","9">>,
      <<"3","3","6","6","#","9","9">>,
      <<"r","g","b","(","0",",","0",",","0",")">> }

BgTokens == {Undefined} \cup BgWords \cup StringsUpTo(BgAlphabet, MaxBgLen)

InitBg ==
    /\ IdleServer
    /\ pc = "call"
    /\ arg \in BgTokens
    /\ ret = NoValue

CallParseBackground ==
    /\ pc = "call"
    /\ ret' = parseBackground(arg)
    /\ pc' = "returned"
    /\ UNCHANGED <<arg, ServerVars>>

NextBg == CallParseBackground

SpecBg == InitBg /\ [][NextBg]_vars

\* C6: parseBackground returns opaque white for an absent or empty token,
\* transparent black for "transparent" in any case, the RGB triplet for
\* exactly six hexadecimal digits after at most one leading '#', and opaque
\* white for every other token (a '#' elsewhere included); alpha is 0 or 1
\* and every channel is in 0..255.
C6_BackgroundAsClaimed ==
    pc = "returned" =>
        /\ ret = ( IF arg = Undefined \/ arg = <<>> THEN White
                   ELSE IF toLowerCase(arg) = TransparentWord
                        THEN [r |-> 0, g |-> 0, b |-> 0, alpha |-> 0]
                   ELSE LET digits == IF arg[1] = "#" THEN Tail(arg) ELSE arg
                        IN  IF IsHex6(digits)
                            THEN [r |-> parseIntHex2(SubSeq(digits, 1, 2)),
                                  g |-> parseIntHex2(SubSeq(digits, 3, 4)),
                                  b |-> parseIntHex2(SubSeq(digits, 5, 6)),
                                  alpha |-> 1]
                            ELSE White )
        /\ ret.alpha \in {0, 1}
        /\ \A ch \in {ret.r, ret.g, ret.b} : ch \in 0..255

-----------------------------------------------------------------------------
(* JavaScript numbers: an integer, or NaN.                                 *)

NaN == [nan |-> TRUE, val |-> 0]
Num(v) == [nan |-> FALSE, val |-> v]

\* Math.max(a, b): NaN when either argument is NaN
MathMax(a, b) ==
    IF a.nan \/ b.nan THEN NaN
    ELSE IF a.val >= b.val THEN a ELSE b

DecDigits == <<"0","1","2","3","4","5","6","7","8","9">>

IsDecDigit(c) == \E i \in 1..10 : DecDigits[i] = c

DecValue(c) == (CHOOSE i \in 1..10 : DecDigits[i] = c) - 1

\* the string without its leading white space
RECURSIVE trimStart(_)
trimStart(s) ==
    IF s # <<>> /\ Head(s) = " " THEN trimStart(Tail(s)) ELSE s

\* the longest prefix of decimal digits
RECURSIVE digitPrefix(_)
digitPrefix(s) ==
    IF s # <<>> /\ IsDecDigit(Head(s))
    THEN <<Head(s)>> \o digitPrefix(Tail(s))
    ELSE <<>>

RECURSIVE decimalValue(_)
decimalValue(ds) ==
    IF ds = <<>> THEN 0
    ELSE 10 * decimalValue(SubSeq(ds, 1, Len(ds) - 1)) + DecValue(ds[Len(ds)])

\* parseInt(s, 10): white space, an optional sign, then the longest prefix
\* of digits; NaN when there is no digit
parseInt10(s) ==
    LET t == trimStart(s)
        negative == t # <<>> /\ Head(t) = "-"
        signed == t # <<>> /\ Head(t) \in {"-", "+"}
        ds == digitPrefix(IF signed THEN Tail(t) ELSE t)
    IN  IF ds = <<>> THEN NaN
        ELSE Num(IF negative THEN 0 - decimalValue(ds) ELSE decimalValue(ds))

DefaultSize == <<"3","0","0","0">>

\* POST /resize: const size = Math.max(1, parseInt(req.query.size || "3000", 10))
resizeSize(sizeParam) ==
    MathMax(Num(1), parseInt10(OrElse(sizeParam, DefaultSize)))

\* POST /resize-multiple: the same expression
resizeMultipleSize(sizeParam) ==
    MathMax(Num(1), parseInt10(OrElse(sizeParam, DefaultSize)))

-----------------------------------------------------------------------------
(* The size expression of both handlers applied to a bounded set of size   *)
(* parameters.                                                             *)

SizeAlphabet == {"-", "0", "7", "x", " ", "."}

SizeWords == { <<"3","0","0","0">>, <<"a","b","c">>, <<"-","1","2","0","0">> }

SizeTokens == {Undefined} \cup SizeWords \cup StringsUpTo(SizeAlphabet, MaxSizeLen)

InitSize ==
    /\ IdleServer
    /\ pc = "call"
    /\ arg \in SizeTokens
    /\ ret = NoValue

CallSize ==
    /\ pc = "call"
    /\ ret' = [single |-> resizeSize(arg), multiple |-> resizeMultipleSize(arg)]
    /\ pc' = "returned"
    /\ UNCHANGED <<arg, ServerVars>>

NextSize == CallSize

SpecSize == InitSize /\ [][NextSize]_vars

\* C7: the box size both handlers hand to the codec is a positive integer:
\* 3000 when the size parameter is unspecified, and never NaN, zero or
\* negative whatever the parameter is.
C7_SizeAsClaimed ==
    pc = "returned" =>
        \A size \in {ret.single, ret.multiple} :
            /\ ~size.nan
            /\ size.val >= 1
            /\ (arg = Undefined => size.val = 3000)
            /\ \A ds \in StringsUpTo({"0", "7"}, MaxSizeLen) \ {<<>>} :
                   /\ (arg = ds =>
                         size.val = IF decimalValue(ds) >= 1
                                    THEN decimalValue(ds) ELSE 1)
                   /\ (arg = <<"-">> \o ds => size.val = 1)

-----------------------------------------------------------------------------
(* The choice of the output format.                                        *)

PngWord == <<"p","n","g">>

\* POST /resize: let outputFormat = "jpeg"; if (background.alpha === 0) ...
resizeOutputFormat(background, metadata, mimetype) ==
    IF background.alpha = 0 THEN "png"
    ELSE IF metadata.hasAlpha THEN "png"
    ELSE IF includes(OrElse(mimetype, <<>>), PngWord) THEN "png"
    ELSE "jpeg"

processImageOutputFormat_NoAlpha(background, metadata, mimetype) ==
    IF background.alpha = 0 THEN "png"
    ELSE IF includes(OrElse(mimetype, <<>>), PngWord) THEN "png"
    ELSE "jpeg"

\* processImage: the same choice, written a second time
processImageOutputFormat(background, metadata, mimetype) ==
    IF background.alpha = 0 THEN "png"
    ELSE IF metadata.hasAlpha THEN "png"
    ELSE IF includes(OrElse(mimetype, <<>>), PngWord) THEN "png"
    ELSE "jpeg"

WhiteWord == <<"w","h","i","t","e">>

\* const bgParam = req.query.bg || "white"
bgParamOf(query) == OrElse(query.bg, WhiteWord)

-----------------------------------------------------------------------------
(* Both format choices applied to a bounded set of backgrounds, metadata   *)
(* and MIME types.                                                         *)

MimeAlphabet == {"p", "n", "g", "/"}

MimeWords ==
    { <<"i","m","a","g","e","/","p","n","g">>,
      <<"i","m","a","g","e","/","j","p","e","g">>,
      <<"i","m","a","g","e","/","P","N","G">>,
      <<"i","m","a","g","e","/","x","-","p","n","g">>,
      <<"i","m","a","g","e","/","w","e","b","p">> }

MimeTokens == {Undefined} \cup MimeWords \cup StringsUpTo(MimeAlphabet, MaxMimeLen)

FormatBgTokens ==
    { Undefined, TransparentWord, <<"#","3","3","6","6","9","9">>,
      <<"T","R","A","N","S","P","A","R","E","N","T">> }

InitFormat ==
    /\ IdleServer
    /\ pc = "call"
    /\ arg \in [bg : FormatBgTokens, hasAlpha : BOOLEAN, mimetype : MimeTokens]
    /\ ret = NoValue

CallOutputFormat ==
    /\ pc = "call"
    /\ LET background == parseBackground(bgParamOf(arg))
           metadata == [hasAlpha |-> arg.hasAlpha]
       IN  ret' = [single |-> resizeOutputFormat(background, metadata, arg.mimetype),
                   batch |-> processImageOutputFormat(background, metadata, arg.mimetype)]
    /\ pc' = "returned"
    /\ UNCHANGED <<arg, ServerVars>>

NextFormat == CallOutputFormat

SpecFormat == InitFormat /\ [][NextFormat]_vars

\* the background asked for is the transparent one
AsksTransparent(bg) == bg # Undefined /\ toLowerCase(bg) = TransparentWord

-----------------------------------------------------------------------------
(* The "contain" fit of the codec. The server only hands the codec         *)
(* { width: size, height: size, fit: "contain", background }; the plan is  *)
(* the one the specification gives for that fit.                           *)

Max2(a, b) == IF a >= b THEN a ELSE b

Clamp(x, lo, hi) == IF x < lo THEN lo ELSE IF x > hi THEN hi ELSE x

\* round(side * scaleFactor) for scaleFactor = boxSize / longest, in exact
\* arithmetic, halves rounded up as Math.round does
RoundScaled(side, boxSize, longest) ==
    (2 * side * boxSize + longest) \div (2 * longest)

FitPlan_NoLowerClamp(width, height, boxSize) ==
    LET longest == Max2(width, height)
        sw == Clamp(RoundScaled(width, boxSize, longest), 0, boxSize)
        sh == Clamp(RoundScaled(height, boxSize, longest), 0, boxSize)
    IN  [scaledWidth |-> sw, scaledHeight |-> sh,
         offsetX |-> (boxSize - sw) \div 2, offsetY |-> (boxSize - sh) \div 2]

\* scaleFactor = min(boxSize / width, boxSize / height) = boxSize / longest
FitPlan(width, height, boxSize) ==
    LET longest == Max2(width, height)
        sw == Clamp(RoundScaled(width, boxSize, longest), 1, boxSize)
        sh == Clamp(RoundScaled(height, boxSize, longest), 1, boxSize)
    IN  [scaledWidth |-> sw, scaledHeight |-> sh,
         offsetX |-> (boxSize - sw) \div 2, offsetY |-> (boxSize - sh) \div 2]

\* the options both handlers pass to sharp(...).resize
resizeOptions(size, background) ==
    [width |-> size, height |-> size, fit |-> "contain", background |-> background]

InitFit ==
    /\ IdleServer
    /\ pc = "call"
    /\ arg \in [width : 1..MaxDim, height : 1..MaxDim, size : 1..MaxDim]
    /\ ret = NoValue

CallFitPlan ==
    /\ pc = "call"
    /\ LET options == resizeOptions(arg.size, White)
       IN  ret' = FitPlan(arg.width, arg.height, options.width)
    /\ pc' = "returned"
    /\ UNCHANGED <<arg, ServerVars>>

NextFit == CallFitPlan

SpecFit == InitFit /\ [][NextFit]_vars

FitsCanvas(plan, boxSize) ==
    /\ plan.scaledWidth \in 1..boxSize
    /\ plan.scaledHeight \in 1..boxSize
    /\ plan.offsetX >= 0
    /\ plan.offsetY >= 0
    /\ plan.offsetX + plan.scaledWidth <= boxSize
    /\ plan.offsetY + plan.scaledHeight <= boxSize

\* C8 as stated: the plan fits the canvas, and exactly one of scaledWidth =
\* boxSize, scaledHeight = boxSize holds unless the source is square, in which
\* case both hold.
C8_ExactlyOneSideFills ==
    pc = "returned" =>
        /\ FitsCanvas(ret, arg.size)
        /\ IF arg.width = arg.height
           THEN ret.scaledWidth = arg.size /\ ret.scaledHeight = arg.size
           ELSE (ret.scaledWidth = arg.size) # (ret.scaledHeight = arg.size)

\* C8 amended: the plan fits the canvas, the scaled dimensions are in
\* 1..boxSize, and the side along the source's longer dimension fills the
\* canvas: at least one of scaledWidth = boxSize, scaledHeight = boxSize holds,
\* and both hold for a square source.
C8_LongerSideFills ==
    pc = "returned" =>
        /\ FitsCanvas(ret, arg.size)
        /\ (arg.width >= arg.height => ret.scaledWidth = arg.size)
        /\ (arg.height >= arg.width => ret.scaledHeight = arg.size)

\* a source that is not square, whose shorter side rounds up to the box size,
\* so that both scaled sides fill the canvas
C8_Witness ==
    /\ pc = "returned"
    /\ arg.width # arg.height
    /\ ret.scaledWidth = arg.size
    /\ ret.scaledHeight = arg.size
    /\ arg.size > 1

-----------------------------------------------------------------------------
(* Uploaded files and the codec (sharp).                                   *)

ImagePng == <<"i","m","a","g","e","/","p","n","g">>
ImageJpeg == <<"i","m","a","g","e","/","j","p","e","g">>
ImagePrefix == <<"i","m","a","g","e","/">>

\* an image the codec decodes: 4x2 pixels, no alpha channel
PhotoFile ==
    [originalname |-> <<"a","-","b",".","p","n","g">>,
     mimetype |-> ImagePng, content |-> "rgb"]

\* an image with an alpha channel, whose name sanitizes to PhotoFile's
AlphaFile ==
    [originalname |-> <<"a","_","b",".","p","n","g">>,
     mimetype |-> ImagePng, content |-> "rgba"]

\* bytes the codec's metadata probe rejects
GarbageFile ==
    [originalname |-> <<"c",".","j","p","g">>,
     mimetype |-> ImageJpeg, content |-> "garbage"]

\* a header the probe reads, and a body the codec fails to decode
TruncatedFile ==
    [originalname |-> <<"d"," ","e",".","j","p","g">>,
     mimetype |-> ImageJpeg, content |-> "truncated"]

\* not an image at all
TextFile ==
    [originalname |-> <<"n",".","t","x","t">>,
     mimetype |-> <<"t","e","x","t","/","p","l","a","i","n">>,
     content |-> "garbage"]

ImageFiles == {PhotoFile, AlphaFile, GarbageFile, TruncatedFile}

\* await sharp(inputBuffer).metadata(): the metadata, or a rejection
sharpMetadata(content) ==
    CASE content = "rgb" ->
           [ok |-> TRUE, width |-> 4, height |-> 2, hasAlpha |-> FALSE]
      [] content = "rgba" ->
           [ok |-> TRUE, width |-> 2, height |-> 2, hasAlpha |-> TRUE]
      [] content = "truncated" ->
           [ok |-> TRUE, width |-> 4, height |-> 4, hasAlpha |-> FALSE]
      [] OTHER ->
           [ok |-> FALSE, message |-> "Input buffer contains unsupported image format"]

\* sharp(inputBuffer).resize(options): throws on a width that is no positive
\* integer
sharpResizeThrows(options) == options.width.nan \/ options.width.val < 1

\* await pipeline.toBuffer(): whether the codec decodes, resizes and encodes
sharpToBufferOk(content) == content \in {"rgb", "rgba"}

-----------------------------------------------------------------------------
(* Output file names.                                                      *)

\* path.parse(p).name: the base name without its last extension
pathParseName(p) ==
    LET slashes == {i \in 1..Len(p) : p[i] = "/"}
        from == IF slashes = {} THEN 1
                ELSE 1 + CHOOSE i \in slashes : \A j \in slashes : j <= i
        base == SubSeq(p, from, Len(p))
        dots == {i \in 2..Len(base) : base[i] = "."}
    IN  IF dots = {} THEN base
        ELSE SubSeq(base, 1, (CHOOSE i \in dots : \A j \in dots : j <= i) - 1)

SpecialChars == {"(", ")", "[", "]", "+", " ", "-", "."}

\* originalName.replace(/[()[\]+\s\-\.]/g, '_')
sanitizeName(name) ==
    [i \in 1..Len(name) |-> IF name[i] \in SpecialChars THEN "_" ELSE name[i]]

\* the decimal digits of a natural number
RECURSIVE numberToString(_)
numberToString(n) ==
    IF n < 10 THEN <<DecDigits[n + 1]>>
    ELSE numberToString(n \div 10) \o <<DecDigits[(n % 10) + 1]>>

FormatChars(format) ==
    IF format = "png" THEN <<"p","n","g">> ELSE <<"j","p","e","g">>

\* `${sanitizedName}_resized_${timestamp}.${outputFormat}`
outputFilename(originalname, timestamp, outputFormat) ==
    sanitizeName(pathParseName(originalname))
        \o <<"_","r","e","s","i","z","e","d","_">>
        \o numberToString(timestamp)
        \o <<".">> \o FormatChars(outputFormat)

-----------------------------------------------------------------------------
(* POST /resize-multiple.                                                  *)

MaxFilesPerRequest == 5

\* uploadMultiple.array("images", 5) with limits.files = 5 and the image
\* fileFilter: the upload fails, and the handler is never called
uploadMultipleRejects(files) ==
    \/ Len(files) > MaxFilesPerRequest
    \/ \E i \in 1..Len(files) : ~startsWith(files[i].mimetype, ImagePrefix)

noFilesProvided_Never(files) == FALSE

\* if (!files || files.length === 0)
noFilesProvided(files) == files = <<>>

\* if (files.length > 5)
tooManyFiles(files) == Len(files) > MaxFilesPerRequest

Pending == [pending |-> TRUE]

\* the result processImage returns from its try block
processImageSuccess(file, index, size, outputFormat, metadata, timestamp) ==
    [success |-> TRUE,
     filename |-> outputFilename(file.originalname, timestamp, outputFormat),
     size |-> <<size.val, size.val>>,
     format |-> outputFormat,
     originalSize |-> <<metadata.width, metadata.height>>,
     originalName |-> file.originalname,
     index |-> index]

\* the result processImage returns from its catch block
processImageFailure(file, index, message) ==
    [success |-> FALSE,
     error |-> message,
     originalName |-> file.originalname,
     index |-> index]

promiseAllSlot_CompletionOrder(index, settled) ==
    Cardinality({k \in 1..Len(settled) : settled[k] # Pending}) + 1

\* Promise.all puts the value of the promise of files[index] at position
\* index of its result, whenever it settles
promiseAllSlot(index, settled) == index + 1

promiseAllSettled_Any(its) == \E i \in 1..Len(its) : its[i].state = "settled"

\* Promise.all resolves once every promise has
promiseAllSettled(its) == \A i \in 1..Len(its) : its[i].state = "settled"

failedOf_Unfiltered(rs) == rs

\* results.filter(result => result.success)
successfulOf(rs) == SelectSeq(rs, LAMBDA r : r.success)

\* results.filter(result => !result.success)
failedOf(rs) == SelectSeq(rs, LAMBDA r : ~r.success)

errorResponse(status, message) ==
    [status |-> status, body |-> [success |-> FALSE, error |-> message]]

\* the answer of the framework to an error of the upload middleware: status
\* 500 and an error page, no JSON
uploadErrorResponse == [status |-> 500, body |-> [page |-> "error"]]

BatchQueries ==
    { [size |-> Undefined, bg |-> Undefined],
      [size |-> <<"a","b","c">>, bg |-> TransparentWord] }

RECURSIVE SeqsOfLen(_, _)
SeqsOfLen(S, n) ==
    IF n = 0 THEN {<<>>}
    ELSE {Append(s, x) : s \in SeqsOfLen(S, n - 1), x \in S}

\* the uploads: up to one file more than the maximum, images or not
Uploads ==
    (UNION {SeqsOfLen(ImageFiles, n) : n \in 0..(MaxFilesPerRequest + 1)})
    \cup {<<TextFile>>, <<PhotoFile, TextFile>>}

InitBatch ==
    /\ req \in [endpoint : {"resize-multiple"}, files : Uploads, query : BatchQueries]
    /\ pc = "upload"
    /\ locals = NoLocals
    /\ items = <<>>
    /\ results = <<>>
    /\ res = NoResponse
    /\ sent = 0
    /\ now = 0
    /\ started = NoStarted
    /\ arg = NoValue
    /\ ret = NoValue

\* the multer middleware in front of the handler
UploadMultiple ==
    /\ pc = "upload"
    /\ IF uploadMultipleRejects(req.files)
       THEN /\ res' = uploadErrorResponse
            /\ sent' = sent + 1
            /\ pc' = "done"
       ELSE /\ pc' = "handler"
            /\ UNCHANGED <<res, sent>>
    /\ UNCHANGED <<req, locals, items, results, now, started, arg, ret>>

\* the handler up to its await of Promise.all: the count checks, the size
\* and the background, then files.map starts processImage for every file,
\* each running up to its await of the metadata probe
ResizeMultiple ==
    /\ pc = "handler"
    /\ IF noFilesProvided(req.files)
       THEN /\ res' = errorResponse(400, "At least one image file must be provided")
            /\ sent' = sent + 1
            /\ pc' = "done"
            /\ UNCHANGED <<locals, items, results, started>>
       ELSE IF tooManyFiles(req.files)
       THEN /\ res' = errorResponse(400, "Maximum 5 images allowed per request")
            /\ sent' = sent + 1
            /\ pc' = "done"
            /\ UNCHANGED <<locals, items, results, started>>
       ELSE /\ locals' = [size |-> resizeMultipleSize(req.query.size),
                          bgParam |-> bgParamOf(req.query),
                          background |-> parseBackground(bgParamOf(req.query))]
            /\ items' = [i \in 1..Len(req.files) |-> [state |-> "metadata"]]
            /\ results' = [i \in 1..Len(req.files) |-> Pending]
            /\ started' = [started EXCEPT !.codec = @ + Len(req.files)]
            /\ pc' = "awaitAll"
            /\ UNCHANGED <<res, sent>>
    /\ UNCHANGED <<req, now, arg, ret>>

\* the promise of processImage(files[index], index) settles with result
Settle(i, result) ==
    /\ items' = [items EXCEPT ![i] = [state |-> "settled"]]
    /\ results' = [results EXCEPT ![promiseAllSlot(i - 1, results)] = result]

\* the metadata probe of one file settles: processImage chooses the format
\* and builds the pipeline, and awaits toBuffer; or its catch block returns
MetadataSettles(i) ==
    /\ pc = "awaitAll"
    /\ items[i].state = "metadata"
    /\ LET file == req.files[i]
           size == locals.size
           background == locals.background
           metadata == sharpMetadata(file.content)
       IN  IF ~metadata.ok
           THEN /\ Settle(i, processImageFailure(file, i - 1, metadata.message))
                /\ UNCHANGED started
           ELSE IF sharpResizeThrows(resizeOptions(size, background))
           THEN /\ Settle(i, processImageFailure(file, i - 1,
                        "Expected positive integer for width"))
                /\ UNCHANGED started
           ELSE /\ items' = [items EXCEPT ![i] =
                      [state |-> "toBuffer",
                       metadata |-> metadata,
                       outputFormat |-> processImageOutputFormat(
                                            background, metadata, file.mimetype)]]
                /\ started' = [started EXCEPT !.codec = @ + 1]
                /\ UNCHANGED results
    /\ UNCHANGED <<req, pc, locals, res, sent, now, arg, ret>>

\* toBuffer of one file settles: processImage names the output after
\* Date.now() and returns; or its catch block returns
ToBufferSettles(i) ==
    /\ pc = "awaitAll"
    /\ items[i].state = "toBuffer"
    /\ LET file == req.files[i]
           size == locals.size
       IN  IF sharpToBufferOk(file.content)
           THEN Settle(i, processImageSuccess(file, i - 1, size,
                            items[i].outputFormat, items[i].metadata, now))
           ELSE Settle(i, processImageFailure(file, i - 1,
                            "Input buffer has corrupt data"))
    /\ UNCHANGED <<req, pc, locals, res, sent, now, started, arg, ret>>

\* a millisecond passes
Tick ==
    /\ now < MaxNow
    /\ now' = now + 1
    /\ UNCHANGED <<req, pc, locals, items, results, res, sent, started, arg, ret>>

\* Promise.all resolves and the handler sends the response; a results array
\* holding anything but results makes the filters throw into the outer catch
PromiseAllResolves ==
    /\ pc = "awaitAll"
    /\ promiseAllSettled(items)
    /\ IF \E k \in 1..Len(results) : results[k] = Pending
       THEN res' = errorResponse(500, "Processing error")
       ELSE LET successful == successfulOf(results)
                failed == failedOf(results)
            IN  res' = [status |-> 200,
                        body |-> [success |-> TRUE,
                                  totalImages |-> Len(req.files),
                                  successfulCount |-> Len(successful),
                                  failedCount |-> Len(failed),
                                  images |-> successful,
                                  errors |-> failed,
                                  settings |-> [size |-> <<locals.size, locals.size>>,
                                                background |-> locals.bgParam]]]
    /\ sent' = sent + 1
    /\ pc' = "done"
    /\ UNCHANGED <<req, locals, items, results, now, started, arg, ret>>

NextBatch ==
    \/ UploadMultiple
    \/ ResizeMultiple
    \/ \E i \in 1..Len(items) : MetadataSettles(i)
    \/ \E i \in 1..Len(items) : ToBufferSettles(i)
    \/ Tick
    \/ PromiseAllResolves

SpecBatch == InitBatch /\ [][NextBatch]_vars

\* the uploads the join is followed on: every count, three kinds of file
JoinUploads ==
    UNION {SeqsOfLen({PhotoFile, GarbageFile, TruncatedFile}, n) :
              n \in 0..(MaxFilesPerRequest + 1)}

InitJoin == InitBatch /\ req.files \in JoinUploads

\* the event loop runs the continuation of a resolved Promise.all
FairSpecBatch == InitJoin /\ [][NextBatch]_vars /\ WF_vars(PromiseAllResolves)

-----------------------------------------------------------------------------
(* Properties of POST /resize-multiple.                                    *)

\* the handler accepted the batch and started its items
Accepted == items # <<>>

\* the inputs whose codec step (metadata probe, resize or encode) fails
FailingInputs ==
    {i \in 1..Len(req.files) :
        \/ ~sharpMetadata(req.files[i].content).ok
        \/ sharpResizeThrows(resizeOptions(resizeMultipleSize(req.query.size), White))
        \/ ~sharpToBufferOk(req.files[i].content)}

\* position k of the sequence carries index k - 1 and describes input k
InInputOrder(seq) ==
    /\ Len(seq) = Len(req.files)
    /\ \A k \in 1..Len(seq) :
          /\ seq[k].index = k - 1
          /\ seq[k].originalName = req.files[k].originalname

\* the records are in increasing index order and each describes its input
Ascending(seq) ==
    /\ \A j \in 1..Len(seq) : \A k \in 1..Len(seq) :
          j < k => seq[j].index < seq[k].index
    /\ \A k \in 1..Len(seq) :
          /\ seq[k].index \in 0..(Len(req.files) - 1)
          /\ seq[k].originalName = req.files[seq[k].index + 1].originalname

IndicesOf(seq) == {seq[k].index + 1 : k \in 1..Len(seq)}

\* C1 as stated: the response of an accepted batch holds its n records in one
\* ordered sequence whose position i carries index i and describes input i.
C1_OneOrderedSequence ==
    (pc = "done" /\ Accepted) =>
        \/ InInputOrder(res.body.images)
        \/ InInputOrder(res.body.errors)
        \/ InInputOrder(res.body.images \o res.body.errors)

\* C1 amended: the array Promise.all resolves to holds the n records, position
\* i carrying index i and describing input i, whatever the completion order;
\* the response splits it into images (the successes) and errors (the
\* failures), each in increasing index order, every record carrying the index
\* of the input it describes, the two together holding every index once.
C1_SplitInInputOrder ==
    (pc = "done" /\ Accepted) =>
        /\ InInputOrder(results)
        /\ Ascending(res.body.images)
        /\ Ascending(res.body.errors)
        /\ Len(res.body.images) + Len(res.body.errors) = Len(req.files)
        /\ IndicesOf(res.body.images) \cup IndicesOf(res.body.errors)
               = 1..Len(req.files)

\* a failure ahead of two successes, the later of which completed first
C1_Witness ==
    /\ pc = "done"
    /\ Accepted
    /\ Len(res.body.errors) >= 1
    /\ Len(res.body.images) >= 2
    /\ res.body.errors[1].index < res.body.images[1].index
    /\ res.body.images[1].filename =
           outputFilename(res.body.images[1].originalName, MaxNow, "png")
    /\ res.body.images[2].filename =
           outputFilename(res.body.images[2].originalName, 0, "png")

\* C2: whichever inputs fail in the codec, an accepted batch is answered with
\* success, total n, failure count |F|, success count n - |F|, exactly the
\* inputs of F reported as failures with an error message and every other
\* input as a success.
C2_FailuresIsolated ==
    (pc = "done" /\ Accepted) =>
        /\ res.status = 200
        /\ res.body.success
        /\ res.body.totalImages = Len(req.files)
        /\ res.body.failedCount = Cardinality(FailingInputs)
        /\ res.body.successfulCount = Len(req.files) - Cardinality(FailingInputs)
        /\ Len(res.body.errors) = Cardinality(FailingInputs)
        /\ Len(res.body.images) = Len(req.files) - Cardinality(FailingInputs)
        /\ IndicesOf(res.body.errors) = FailingInputs
        /\ IndicesOf(res.body.images) = (1..Len(req.files)) \ FailingInputs
        /\ \A k \in 1..Len(res.body.errors) :
              ~res.body.errors[k].success /\ res.body.errors[k].error # ""
        /\ \A k \in 1..Len(res.body.images) : res.body.images[k].success

\* three inputs or more, of which only the second fails
C2_Witness ==
    /\ pc = "done"
    /\ Accepted
    /\ Len(req.files) >= 3
    /\ FailingInputs = {2}
    /\ res.body.failedCount = 1
    /\ res.body.errors[1].index = 1

\* C3: a batch of 0 or of more than 5 inputs is answered with an error, no
\* codec call is started for it and no item result produced; a batch of 1 to
\* 5 inputs is rejected only for a file that is not an image.
C3_CountValidation ==
    LET n == Len(req.files)
    IN  /\ (n = 0 \/ n > 5) =>
              /\ items = <<>>
              /\ results = <<>>
              /\ started.codec = 0
              /\ (pc = "done" /\ n = 0) => (res.status = 400 /\ ~res.body.success)
              /\ (pc = "done" /\ n > 5) => res.status = 500
        /\ (n \in 1..5 /\ pc = "done" /\ res.status # 200) =>
              \E i \in 1..n : ~startsWith(req.files[i].mimetype, ImagePrefix)
        /\ (n \in 1..5 /\ pc = "done" /\ res.status = 200) => Accepted

\* an empty batch answered 400
C3_Witness ==
    /\ pc = "done"
    /\ req.endpoint = "resize-multiple"
    /\ req.files = <<>>
    /\ res.status = 400
    /\ started.codec = 0

\* C4: two distinct items of a batch that were processed successfully have
\* distinct output file names.
C4_DistinctFilenames ==
    \A j \in 1..Len(results) : \A k \in 1..Len(results) :
        ( /\ j # k
          /\ results[j] # Pending /\ results[j].success
          /\ results[k] # Pending /\ results[k].success )
        => results[j].filename # results[k].filename

AllSettled == Accepted /\ \A i \in 1..Len(items) : items[i].state = "settled"

\* C10: the response of an accepted batch is sent at most once and only when
\* every item has settled, and once every item has settled it is sent.
C10_JoinBarrier ==
    /\ [](sent <= 1 /\ ((sent = 1 /\ Accepted) => AllSettled))
    /\ (AllSettled ~> sent = 1)

\* five items, successes and failures, all settled, and the response sent
C10_Witness ==
    /\ sent = 1
    /\ Len(items) = 5
    /\ AllSettled
    /\ res.status = 200
    /\ res.body.failedCount >= 1
    /\ res.body.successfulCount >= 1

-----------------------------------------------------------------------------
(* POST /resize.                                                           *)

NoFile == [absent |-> TRUE]

UrlPhoto == <<"h",":","/","p",".","p","n","g">>
UrlMissing == <<"h",":","/","4","0","4">>
UrlPage == <<"h",":","/","p","a","g","e">>

\* fetch(imageUrl) and the checks of downloadImageFromUrl: the downloaded
\* image, or the error thrown
downloadImageFromUrl(imageUrl) ==
    CASE imageUrl = UrlPhoto ->
           [ok |-> TRUE,
            buffer |-> "rgb",
            contentType |-> ImagePng,
            originalname |-> <<"p",".","p","n","g">>]
      [] imageUrl = UrlPage ->
           [ok |-> FALSE, message |-> "URL does not point to a valid image"]
      [] OTHER ->
           [ok |-> FALSE, message |-> "Failed to download image"]

\* const hasFile = !!req.file
hasFileOf(request) == request.file # NoFile

\* const hasUrl = !!imageUrl
hasUrlOf(request) == ~Falsy(request.body.image_url)

\* if (!hasFile && !hasUrl)
neitherProvided(hasFile, hasUrl) == ~hasFile /\ ~hasUrl

bothProvided_Never(hasFile, hasUrl) == FALSE

\* if (hasFile && hasUrl)
bothProvided(hasFile, hasUrl) == hasFile /\ hasUrl

TrueWord == <<"t","r","u","e">>

\* req.query?.save_to_s3 === 'true'
saveToS3Of(query) == query.save_to_s3 = TrueWord

contentTypeOf(outputFormat) ==
    IF outputFormat = "png" THEN ImagePng ELSE ImageJpeg

ResizeQueries ==
    [size : {Undefined, <<"0">>, <<"a","b","c">>},
     bg : {Undefined, TransparentWord},
     save_to_s3 : {Undefined, TrueWord}]

JpegFile ==
    [originalname |-> <<"f",".","j","p","g">>,
     mimetype |-> ImageJpeg, content |-> "rgb"]

InitResize ==
    /\ req \in [endpoint : {"resize"},
                file : {NoFile, JpegFile, AlphaFile, GarbageFile, TruncatedFile},
                body : [image_url : {Undefined, <<>>, UrlPhoto, UrlMissing, UrlPage}],
                query : ResizeQueries]
    /\ pc = "handler"
    /\ locals = NoLocals
    /\ items = <<>>
    /\ results = <<>>
    /\ res = NoResponse
    /\ sent = 0
    /\ now = 0
    /\ started = NoStarted
    /\ arg = NoValue
    /\ ret = NoValue

\* the catch block of the handler
ProcessingError(message) ==
    /\ res' = errorResponse(500, message)
    /\ sent' = sent + 1
    /\ pc' = "done"

\* with the input at hand: the size and the background, then the await of the
\* metadata probe
ReadInput(inputBuffer, originalname, mimetype) ==
    /\ locals' = [inputBuffer |-> inputBuffer,
                  originalname |-> originalname,
                  mimetype |-> mimetype,
                  size |-> resizeSize(req.query.size),
                  bgParam |-> bgParamOf(req.query),
                  background |-> parseBackground(bgParamOf(req.query))]
    /\ started' = [started EXCEPT !.codec = @ + 1]
    /\ pc' = "metadata"

\* the handler up to its first await: the validation of the input source,
\* then the upload is read or the download started
Resize ==
    /\ pc = "handler"
    /\ LET hasFile == hasFileOf(req)
           hasUrl == hasUrlOf(req)
       IN  IF neitherProvided(hasFile, hasUrl)
           THEN /\ res' = errorResponse(400,
                     "Either 'image' file field or 'image_url' JSON field must be provided")
                /\ sent' = sent + 1
                /\ pc' = "done"
                /\ UNCHANGED <<locals, started>>
           ELSE IF bothProvided(hasFile, hasUrl)
           THEN /\ res' = errorResponse(400,
                     "Provide either 'image' file field OR 'image_url' JSON field, not both")
                /\ sent' = sent + 1
                /\ pc' = "done"
                /\ UNCHANGED <<locals, started>>
           ELSE IF hasFile
           THEN /\ ReadInput(req.file.content, req.file.originalname, req.file.mimetype)
                /\ UNCHANGED <<res, sent>>
           ELSE /\ started' = [started EXCEPT !.downloads = @ + 1]
                /\ pc' = "download"
                /\ UNCHANGED <<locals, res, sent>>
    /\ UNCHANGED <<req, items, results, now, arg, ret>>

\* downloadImageFromUrl settles
DownloadSettles ==
    /\ pc = "download"
    /\ LET downloadedData == downloadImageFromUrl(req.body.image_url)
       IN  IF downloadedData.ok
           THEN /\ ReadInput(downloadedData.buffer, downloadedData.originalname,
                             downloadedData.contentType)
                /\ UNCHANGED <<res, sent>>
           ELSE /\ ProcessingError(downloadedData.message)
                /\ UNCHANGED <<locals, started>>
    /\ UNCHANGED <<req, items, results, now, arg, ret>>

\* the metadata probe settles: the format is chosen, the pipeline built and
\* toBuffer awaited
ResizeMetadataSettles ==
    /\ pc = "metadata"
    /\ LET metadata == sharpMetadata(locals.inputBuffer)
       IN  IF ~metadata.ok
           THEN /\ ProcessingError(metadata.message)
                /\ UNCHANGED <<locals, started>>
           ELSE IF sharpResizeThrows(resizeOptions(locals.size, locals.background))
           THEN /\ ProcessingError("Expected positive integer for width")
                /\ UNCHANGED <<locals, started>>
           ELSE /\ locals' = [metadata |-> metadata,
                              outputFormat |-> resizeOutputFormat(
                                  locals.background, metadata, locals.mimetype)]
                              @@ locals
                /\ started' = [started EXCEPT !.codec = @ + 1]
                /\ pc' = "toBuffer"
                /\ UNCHANGED <<res, sent>>
    /\ UNCHANGED <<req, items, results, now, arg, ret>>

\* toBuffer settles: the output is named after Date.now(), and uploaded to S3
\* or sent as a file
ResizeToBufferSettles ==
    /\ pc = "toBuffer"
    /\ IF ~sharpToBufferOk(locals.inputBuffer)
       THEN /\ ProcessingError("Input buffer has corrupt data")
            /\ UNCHANGED <<locals, started>>
       ELSE LET filename == outputFilename(locals.originalname, now, locals.outputFormat)
            IN  IF saveToS3Of(req.query)
                THEN /\ locals' = [filename |-> filename] @@ locals
                     /\ started' = [started EXCEPT !.uploads = @ + 1]
                     /\ pc' = "s3"
                     /\ UNCHANGED <<res, sent>>
                ELSE /\ res' = [status |-> 200,
                                contentType |-> contentTypeOf(locals.outputFormat),
                                filename |-> filename,
                                body |-> [success |-> TRUE, size |-> locals.size]]
                     /\ sent' = sent + 1
                     /\ pc' = "done"
                     /\ UNCHANGED <<locals, started>>
    /\ UNCHANGED <<req, items, results, now, arg, ret>>

\* the upload to S3 settles, either way
S3UploadSettles ==
    /\ pc = "s3"
    /\ \E stored \in BOOLEAN :
          IF stored
          THEN /\ res' = [status |-> 200,
                          body |-> [success |-> TRUE,
                                    filename |-> locals.filename,
                                    size |-> locals.size,
                                    format |-> locals.outputFormat,
                                    background |-> locals.bgParam,
                                    source |-> IF hasFileOf(req) THEN "file" ELSE "url",
                                    saved_to_s3 |-> TRUE]]
               /\ sent' = sent + 1
               /\ pc' = "done"
          ELSE ProcessingError("upload failed")
    /\ UNCHANGED <<req, locals, items, results, now, started, arg, ret>>

NextResize ==
    \/ Resize
    \/ DownloadSettles
    \/ ResizeMetadataSettles
    \/ ResizeToBufferSettles
    \/ S3UploadSettles
    \/ Tick

SpecResize == InitResize /\ [][NextResize]_vars

\* the request carries an uploaded file; it carries a URL to download
SuppliesFile == req.file # NoFile
SuppliesUrl == req.body.image_url # Undefined /\ req.body.image_url # <<>>

\* C9: a POST /resize request with neither a file nor a URL, or with both, is
\* answered 400 with success false, and no download, codec call or upload is
\* ever started for it; a request with exactly one of them is never answered
\* 400.
C9_ExactlyOneSource ==
    /\ (SuppliesFile = SuppliesUrl) =>
          /\ started = NoStarted
          /\ pc \in {"handler", "done"}
          /\ pc = "done" => (res.status = 400 /\ ~res.body.success)
    /\ (SuppliesFile # SuppliesUrl) => res.status # 400

\* a request with a file and a URL, answered 400 with nothing started
C9_Witness ==
    /\ pc = "done"
    /\ req.endpoint = "resize"
    /\ SuppliesFile
    /\ SuppliesUrl
    /\ res.status = 400
    /\ started = NoStarted

====
